---- MODULE Spec2Model ----
(***************************************************************************)
(* Model of the deterministic finite acceptor of src/src/lib.rs: the Dfa   *)
(* aggregate, its simulator (check), its reachability pruner               *)
(* (remove_inaccessible_states) and its partition-refinement minimizer     *)
(* (minimize).                                                             *)
(*                                                                         *)
(* State identifiers are Strings in the source.  Here the identifier "qi"  *)
(* is the number i, so that the numeric order is the lexicographic order   *)
(* of the identifiers.  Input symbols are the chars 'a' and 'b'.           *)
(***************************************************************************)
EXTENDS Integers, Sequences, FiniteSets, TLC

(* Bounds of the model. *)
NumStates == 3
MaxTransitions == 2
MaxInputLen == 3
MaxCalls == 2

States == 1..NumStates
Symbols == {"a", "b"}

(* Ordering of char: 'a' < 'b'. *)
CharCode == [c \in Symbols |-> IF c = "a" THEN 97 ELSE 98]

(* Option<T>: None, or Some(x). *)
None == <<>>
Some(x) == <<x>>

(* struct Transition { state, input, next_state } *)
Transition == [state : States, input : Symbols, next_state : States]

(* #[derive(Ord)] on Transition: lexicographic on the fields in order. *)
TransitionLess(t, u) ==
    \/ t.state < u.state
    \/ /\ t.state = u.state
       /\ \/ CharCode[t.input] < CharCode[u.input]
          \/ /\ t.input = u.input
             /\ t.next_state < u.next_state

(* The transition collections a caller supplies: vectors of at most        *)
(* MaxTransitions distinct transitions, listed in increasing order.  Several *)
(* rules for one (state, input) pair are allowed: the struct does not      *)
(* validate determinism.                                                   *)
RECURSIVE VecsOfLen(_)
VecsOfLen(n) ==
    IF n = 0 THEN {<<>>}
    ELSE {Append(p[1], p[2]) :
            p \in {q \in VecsOfLen(n - 1) \X Transition :
                     q[1] = <<>> \/ TransitionLess(q[1][Len(q[1])], q[2])}}

TransitionVecs == UNION {VecsOfLen(n) : n \in 0..MaxTransitions}

(* The inputs given to check: strings of at most MaxInputLen chars. *)
Inputs == UNION {[1..n -> Symbols] : n \in 0..MaxInputLen}

(* struct Dfa { name, start_state, accept_states, transitions }; the name  *)
(* is never read by any operation and is left out.                         *)
Dfa(s, acc, ts) == [start_state |-> s, accept_states |-> acc, transitions |-> ts]

Min(S) == CHOOSE x \in S : \A y \in S : x <= y

(***************************************************************************)
(* Simulator                                                               *)
(***************************************************************************)

(* Dfa::get_transition: the first transition of the vector that matches. *)
get_transition(ts, state, input) ==
    LET matching == {i \in 1..Len(ts) : ts[i].state = state /\ ts[i].input = input}
    IN  IF matching = {} THEN None ELSE Some(ts[Min(matching)])

(* check_loop with `break` in place of `return (false, traversed_states)`.  *)
RECURSIVE check_loop_break(_, _, _)
check_loop_break(d, input, traversed_states) ==
    IF input = <<>>
    THEN <<traversed_states[Len(traversed_states)] \in d.accept_states, traversed_states>>
    ELSE LET current_state == traversed_states[Len(traversed_states)]
             next_transition_option == get_transition(d.transitions, current_state, Head(input))
         IN  IF next_transition_option = None
             THEN <<traversed_states[Len(traversed_states)] \in d.accept_states, traversed_states>>
             ELSE check_loop_break(d, Tail(input),
                                   Append(traversed_states, next_transition_option[1].next_state))

(* The for loop of Dfa::check and its final expression. *)
RECURSIVE check_loop(_, _, _)
check_loop(d, input, traversed_states) ==
    IF input = <<>>
    THEN <<traversed_states[Len(traversed_states)] \in d.accept_states, traversed_states>>
    ELSE LET current_state == traversed_states[Len(traversed_states)]
             next_transition_option == get_transition(d.transitions, current_state, Head(input))
         IN  IF next_transition_option = None
             THEN <<FALSE, traversed_states>>
             ELSE check_loop(d, Tail(input),
                             Append(traversed_states, next_transition_option[1].next_state))

(* Dfa::check *)
check(d, input) == check_loop(d, input, <<d.start_state>>)

(* Dfa::get_all_input_symbols *)
get_all_input_symbols(ts) == {ts[i].input : i \in 1..Len(ts)}

(* Dfa::get_all_states *)
get_all_states(ts) ==
    {ts[i].state : i \in 1..Len(ts)} \cup {ts[i].next_state : i \in 1..Len(ts)}

(***************************************************************************)
(* Reachability pruner                                                     *)
(***************************************************************************)

(* The next_state of every transition of the vector, in vector order. *)
next_states(ts) == [i \in 1..Len(ts) |-> ts[i].next_state]

(* The states one iteration of the while loop pushes to the back of        *)
(* states_to_visit: the neighbours of the popped state that are not in     *)
(* visited_states once the popped state has been inserted.                 *)
pushed_states(ts, visited_states, states_to_visit) ==
    LET currently_visited_state == Head(states_to_visit)
        visited == visited_states \cup {currently_visited_state}
        transitions_for_currently_visited_state ==
            SelectSeq(ts, LAMBDA t : t.state = currently_visited_state)
    IN  SelectSeq(next_states(transitions_for_currently_visited_state),
                  LAMBDA s : s \notin visited)

(* bfs_step that marks the scheduled neighbours visited and never the      *)
(* state it pops.                                                          *)
bfs_step_marks_pushed(ts, visited_states, states_to_visit) ==
    LET pushed == SelectSeq(next_states(SelectSeq(ts, LAMBDA t : t.state = Head(states_to_visit))),
                            LAMBDA s : s \notin visited_states)
    IN  [visited_states  |-> visited_states \cup {pushed[i] : i \in 1..Len(pushed)},
         states_to_visit |-> Tail(states_to_visit) \o pushed]

(* One iteration of the while loop of remove_inaccessible_states. *)
bfs_step(ts, visited_states, states_to_visit) ==
    [visited_states  |-> visited_states \cup {Head(states_to_visit)},
     states_to_visit |-> Tail(states_to_visit)
                            \o pushed_states(ts, visited_states, states_to_visit)]

(* The while loop of remove_inaccessible_states, run until the queue is    *)
(* empty; yields visited_states.                                           *)
RECURSIVE bfs_loop(_, _, _)
bfs_loop(ts, visited_states, states_to_visit) ==
    IF Len(states_to_visit) = 0 THEN visited_states
    ELSE LET next == bfs_step(ts, visited_states, states_to_visit)
         IN  bfs_loop(ts, next.visited_states, next.states_to_visit)

(* keep_accessible without the test of the source state. *)
keep_accessible_next_only(ts, visited_states) ==
    SelectSeq(ts, LAMBDA t : t.next_state \in visited_states)

(* The final filter of remove_inaccessible_states. *)
keep_accessible(ts, visited_states) ==
    SelectSeq(ts, LAMBDA t : t.state \in visited_states /\ t.next_state \in visited_states)

(* Dfa::remove_inaccessible_states: the new transition vector. *)
remove_inaccessible_states(d) ==
    keep_accessible(d.transitions, bfs_loop(d.transitions, {}, <<d.start_state>>))

(***************************************************************************)
(* Partition refiner                                                       *)
(***************************************************************************)

(* The order in which a HashSet<String> yields its members is not fixed by *)
(* the program.  An iteration order is a listing of all state identifiers; *)
(* a set is iterated in the order its members have in that listing.        *)
IterationOrders ==
    {[i \in 1..NumStates |-> i], [i \in 1..NumStates |-> NumStates + 1 - i]}

iterate(set, order) == SelectSeq(order, LAMBDA s : s \in set)

(* get_transition(..).and_then(|t| equivalence_classes.iter().find(..)):   *)
(* the first class that contains the successor, if there is a successor.   *)
next_equivalence_class(ts, state, input, equivalence_classes) ==
    LET t == get_transition(ts, state, input)
    IN  IF t = None THEN None
        ELSE LET containing == {i \in 1..Len(equivalence_classes) :
                                   t[1].next_state \in equivalence_classes[i]}
             IN  IF containing = {} THEN None
                 ELSE Some(equivalence_classes[Min(containing)])

(* Dfa::are_states_indistinguishable *)
are_states_indistinguishable(ts, state_1, state_2, all_input_symbols, equivalence_classes) ==
    \/ state_1 = state_2
    \/ \A input \in all_input_symbols :
          next_equivalence_class(ts, state_1, input, equivalence_classes)
            = next_equivalence_class(ts, state_2, input, equivalence_classes)

(* The pairs (state_1, state_2) of one class, in the order of the two      *)
(* nested for loops over that class.                                       *)
pairs_of_class(equivalence_class, order) ==
    LET members == iterate(equivalence_class, order)
        n == Len(members)
    IN  [k \in 1..(n * n) |-> <<members[((k - 1) \div n) + 1], members[((k - 1) % n) + 1]>>]

(* indistinguishable_states_list as built by the three nested for loops,   *)
(* for the classes from index i on.                                        *)
RECURSIVE indistinguishable_states_list(_, _, _, _, _)
indistinguishable_states_list(ts, all_input_symbols, equivalence_classes, order, i) ==
    IF i > Len(equivalence_classes) THEN <<>>
    ELSE SelectSeq(pairs_of_class(equivalence_classes[i], order),
                   LAMBDA p : are_states_indistinguishable(ts, p[1], p[2], all_input_symbols,
                                                           equivalence_classes))
         \o indistinguishable_states_list(ts, all_input_symbols, equivalence_classes, order, i + 1)

(* One iteration of the loop that builds new_equivalence_classes: the pair *)
(* goes into the first new class that contains one of its states, or       *)
(* starts a new class.                                                     *)
put_indistinguishable_states(p, new_equivalence_classes) ==
    LET found == {i \in 1..Len(new_equivalence_classes) :
                     p[1] \in new_equivalence_classes[i] \/ p[2] \in new_equivalence_classes[i]}
    IN  IF found = {}
        THEN Append(new_equivalence_classes, {p[1], p[2]})
        ELSE [new_equivalence_classes EXCEPT ![Min(found)] = @ \cup {p[1], p[2]}]

(* The loop that builds new_equivalence_classes from the pair list.  (The  *)
(* one-element sets fix the value of the classes built so far before the   *)
(* next iteration begins.)                                                 *)
RECURSIVE build_new_equivalence_classes(_, _)
build_new_equivalence_classes(pairs, new_equivalence_classes) ==
    IF pairs = <<>> THEN new_equivalence_classes
    ELSE CHOOSE classes \in
             {build_new_equivalence_classes(rest, next) :
                 rest \in {Tail(pairs)},
                 next \in {put_indistinguishable_states(Head(pairs), new_equivalence_classes)}} :
             TRUE

(* One pass of the body of `loop` up to the computation of                 *)
(* new_equivalence_classes.                                                *)
refinement_round(ts, all_input_symbols, equivalence_classes, order) ==
    build_new_equivalence_classes(
        indistinguishable_states_list(ts, all_input_symbols, equivalence_classes, order, 1),
        <<>>)

(* has_split_occurred with <= in place of <. *)
has_split_occurred_or_equal(equivalence_classes, new_equivalence_classes) ==
    Len(equivalence_classes) <= Len(new_equivalence_classes)

has_split_occurred(equivalence_classes, new_equivalence_classes) ==
    Len(equivalence_classes) < Len(new_equivalence_classes)

(* vec![self.accept_states.clone(), rejecting_states] *)
initial_equivalence_classes(accept, ts) ==
    <<accept, get_all_states(ts) \ accept>>

(* The `loop` of minimize, run until it breaks; yields the                 *)
(* equivalence_classes the renaming is built from.                         *)
RECURSIVE refinement_loop(_, _, _, _)
refinement_loop(ts, all_input_symbols, equivalence_classes, order) ==
    LET new_equivalence_classes ==
            refinement_round(ts, all_input_symbols, equivalence_classes, order)
    IN  IF ~has_split_occurred(equivalence_classes, new_equivalence_classes)
        THEN equivalence_classes
        ELSE refinement_loop(ts, all_input_symbols, new_equivalence_classes, order)

(* new_name that takes the last of the sorted members. *)
new_name_last(equivalence_class) == CHOOSE x \in equivalence_class : \A y \in equivalence_class : y <= x

(* equivalence_class.iter().sorted().next().unwrap() *)
new_name(equivalence_class) == Min(equivalence_class)

(* The loop that fills renaming_operations, for the classes from index i   *)
(* on.  A HashMap is a function on its key set; insert overrides.          *)
RECURSIVE build_renaming_operations(_, _, _)
build_renaming_operations(equivalence_classes, i, renaming) ==
    IF i > Len(equivalence_classes) THEN renaming
    ELSE LET equivalence_class == equivalence_classes[i]
         IN  IF Cardinality(equivalence_class) <= 1
             THEN build_renaming_operations(equivalence_classes, i + 1, renaming)
             ELSE build_renaming_operations(equivalence_classes, i + 1,
                      [old_state_name \in equivalence_class |-> new_name(equivalence_class)]
                          @@ renaming)

(* renaming_operations.get(name).unwrap_or(&name) *)
renamed(renaming, name) == IF name \in DOMAIN renaming THEN renaming[name] ELSE name

(* Itertools::dedup: drops an element equal to its predecessor. *)
dedup(ts) ==
    LET kept == {i \in 1..Len(ts) : i = 1 \/ ts[i] # ts[i - 1]}
        nth(k) == CHOOSE i \in kept : Cardinality({j \in kept : j < i}) = k - 1
    IN  [k \in 1..Cardinality(kept) |-> ts[nth(k)]]

(* The rewrite of the transition vector: rename, sort, dedup. *)
rename_transitions(ts, renaming) ==
    dedup(SortSeq([i \in 1..Len(ts) |->
                      [state      |-> renamed(renaming, ts[i].state),
                       input      |-> ts[i].input,
                       next_state |-> renamed(renaming, ts[i].next_state)]],
                  TransitionLess))

(* Dfa::minimize: the new transition vector, the returned map and the      *)
(* equivalence_classes the loop ended with.                                *)
minimize(d, order) ==
    LET pruned == remove_inaccessible_states(d)
        all_input_symbols == get_all_input_symbols(pruned)
        classes == refinement_loop(pruned, all_input_symbols,
                                   initial_equivalence_classes(d.accept_states, pruned), order)
        renaming == build_renaming_operations(classes, 1, <<>>)
    IN  [transitions         |-> rename_transitions(pruned, renaming),
         renaming_operations |-> renaming,
         equivalence_classes |-> classes]

(***************************************************************************)
(* State                                                                   *)
(***************************************************************************)

VARIABLES
    start_state,          \* Dfa.start_state
    accept_states,        \* Dfa.accept_states
    transitions,          \* Dfa.transitions
    before,               \* the Dfa as it was when the latest call began
    calls,                \* the names of the completed mutating calls, oldest first
    renaming_operations,  \* the map returned by the latest minimize
    equivalence_classes,  \* equivalence_classes of the latest minimize
    input,                \* the argument of the latest check
    result,               \* the value returned by the latest check, None before any
    pc,                   \* the position inside minimize, "idle" outside of it
    visited_states,       \* local of remove_inaccessible_states
    states_to_visit,      \* local of remove_inaccessible_states
    scheduled             \* how often each state was pushed to states_to_visit

vars == <<start_state, accept_states, transitions, before, calls, renaming_operations,
          equivalence_classes, input, result, pc, visited_states, states_to_visit, scheduled>>

self == Dfa(start_state, accept_states, transitions)

(* A Dfa as built by a caller; no operation has run. *)
Init ==
    /\ start_state \in States
    /\ accept_states \in SUBSET States
    /\ transitions \in TransitionVecs
    /\ before = Dfa(start_state, accept_states, transitions)
    /\ calls = <<>>
    /\ renaming_operations = <<>>
    /\ equivalence_classes = <<>>
    /\ input = <<>>
    /\ result = None
    /\ pc = "idle"
    /\ visited_states = {}
    /\ states_to_visit = <<>>
    /\ scheduled = [s \in States |-> 0]

(***************************************************************************)
(* Whole calls                                                             *)
(***************************************************************************)

(* dfa.check(w) *)
Check(w) ==
    /\ pc = "idle"
    /\ input' = w
    /\ result' = check(self, w)
    /\ UNCHANGED <<start_state, accept_states, transitions, before, calls, renaming_operations,
                   equivalence_classes, pc, visited_states, states_to_visit, scheduled>>

(* dfa.remove_inaccessible_states() *)
RemoveInaccessibleStates ==
    /\ pc = "idle"
    /\ Len(calls) < MaxCalls
    /\ before' = self
    /\ transitions' = remove_inaccessible_states(self)
    /\ calls' = Append(calls, "remove_inaccessible_states")
    /\ UNCHANGED <<start_state, accept_states, renaming_operations, equivalence_classes,
                   input, result, pc, visited_states, states_to_visit, scheduled>>

(* dfa.minimize() *)
Minimize ==
    /\ pc = "idle"
    /\ Len(calls) < MaxCalls
    /\ \E order \in IterationOrders :
          LET m == minimize(self, order)
          IN  /\ transitions' = m.transitions
              /\ renaming_operations' = m.renaming_operations
              /\ equivalence_classes' = m.equivalence_classes
    /\ before' = self
    /\ calls' = Append(calls, "minimize")
    /\ UNCHANGED <<start_state, accept_states, input, result, pc, visited_states,
                   states_to_visit, scheduled>>

(***************************************************************************)
(* minimize, one loop iteration at a time                                  *)
(***************************************************************************)

Occurrences(seq, x) == Cardinality({i \in 1..Len(seq) : seq[i] = x})

(* Entry of minimize and of remove_inaccessible_states, up to the first    *)
(* test of the while loop.                                                 *)
EnterMinimize ==
    /\ pc = "idle"
    /\ Len(calls) < MaxCalls
    /\ before' = self
    /\ visited_states' = {}
    /\ states_to_visit' = <<start_state>>
    /\ scheduled' = [s \in States |-> IF s = start_state THEN 1 ELSE 0]
    /\ pc' = "traverse"
    /\ UNCHANGED <<start_state, accept_states, transitions, calls, renaming_operations,
                   equivalence_classes, input, result>>

(* One iteration of the while loop. *)
VisitState ==
    /\ pc = "traverse"
    /\ Len(states_to_visit) > 0
    /\ LET next == bfs_step(transitions, visited_states, states_to_visit)
           pushed == pushed_states(transitions, visited_states, states_to_visit)
       IN  /\ visited_states' = next.visited_states
           /\ states_to_visit' = next.states_to_visit
           /\ scheduled' = [s \in States |-> scheduled[s] + Occurrences(pushed, s)]
    /\ UNCHANGED <<start_state, accept_states, transitions, before, calls, renaming_operations,
                   equivalence_classes, input, result, pc>>

(* Exit of the while loop, the filter, and the initial partition. *)
DropInaccessible ==
    /\ pc = "traverse"
    /\ Len(states_to_visit) = 0
    /\ transitions' = keep_accessible(transitions, visited_states)
    /\ equivalence_classes' = initial_equivalence_classes(accept_states, transitions')
    /\ pc' = "refine"
    /\ UNCHANGED <<start_state, accept_states, before, calls, renaming_operations,
                   input, result, visited_states, states_to_visit, scheduled>>

(* One pass of `loop`: either break or continue with the new classes. *)
RefinementRound ==
    /\ pc = "refine"
    /\ \E order \in IterationOrders :
          LET new_equivalence_classes ==
                  refinement_round(transitions, get_all_input_symbols(transitions),
                                   equivalence_classes, order)
          IN  IF has_split_occurred(equivalence_classes, new_equivalence_classes)
              THEN /\ equivalence_classes' = new_equivalence_classes
                   /\ pc' = "refine"
              ELSE /\ equivalence_classes' = equivalence_classes
                   /\ pc' = "rename"
    /\ UNCHANGED <<start_state, accept_states, transitions, before, calls, renaming_operations,
                   input, result, visited_states, states_to_visit, scheduled>>

(* The renaming map, the rewrite of the transitions, and the return. *)
Rename ==
    /\ pc = "rename"
    /\ renaming_operations' = build_renaming_operations(equivalence_classes, 1, <<>>)
    /\ transitions' = rename_transitions(transitions, renaming_operations')
    /\ calls' = Append(calls, "minimize")
    /\ pc' = "idle"
    /\ UNCHANGED <<start_state, accept_states, before, equivalence_classes, input, result,
                   visited_states, states_to_visit, scheduled>>

(***************************************************************************)
(* Specifications                                                          *)
(***************************************************************************)

(* The mutating operations as whole calls. *)
Next == RemoveInaccessibleStates \/ Minimize

Spec == Init /\ [][Next]_vars

(* The simulator on a Dfa as built. *)
NextCheck == \E w \in Inputs : Check(w)

SpecCheck == Init /\ [][NextCheck]_vars

(* minimize step by step.  A call that has begun runs to completion: the   *)
(* steps inside it are taken as long as one is enabled.                    *)
MinimizeStep == VisitState \/ DropInaccessible \/ RefinementRound \/ Rename

NextSteps == EnterMinimize \/ VisitState \/ DropInaccessible \/ RefinementRound \/ Rename

SpecSteps == Init /\ [][NextSteps]_vars /\ WF_vars(MinimizeStep)

(***************************************************************************)
(* Properties                                                              *)
(***************************************************************************)

LastCall == IF calls = <<>> THEN "none" ELSE calls[Len(calls)]

LastTwoCalls(name) ==
    /\ Len(calls) >= 2
    /\ calls[Len(calls)] = name
    /\ calls[Len(calls) - 1] = name

(* At most one rule for every (state, symbol) pair. *)
Deterministic(ts) ==
    \A i, j \in 1..Len(ts) :
        (ts[i].state = ts[j].state /\ ts[i].input = ts[j].input) => i = j

(* The pruned transition relation the latest call worked on. *)
PrunedBefore == remove_inaccessible_states(before)

(* C1: language preservation.  For a deterministic automaton, after        *)
(* minimize() the verdict of check on every input equals the verdict on    *)
(* the automaton as it was before the call.                                *)
C1_LanguagePreserved ==
    (LastCall = "minimize" /\ Deterministic(before.transitions))
        => \A w \in Inputs : check(self, w)[1] = check(before, w)[1]

(* C2: minimality as idempotence.  A minimize() directly after a           *)
(* minimize() leaves the transition collection and get_all_states()        *)
(* unchanged, and a minimize() never yields more states than the pruned    *)
(* automaton has.                                                          *)
C2_MinimizeIdempotent ==
    /\ LastTwoCalls("minimize")
          => /\ transitions = before.transitions
             /\ get_all_states(transitions) = get_all_states(before.transitions)
    /\ LastCall = "minimize"
          => Cardinality(get_all_states(transitions))
                <= Cardinality(get_all_states(PrunedBefore))

(* C3: check returns (accepted, trace) where the trace begins with the     *)
(* start state, each later element is the destination of a rule for the    *)
(* previous element and the corresponding symbol, the trace stops short    *)
(* exactly at a symbol that has no rule from its last state (verdict       *)
(* false), and otherwise has one element more than the input and the       *)
(* verdict says whether its last element is an accept state.               *)
HasRule(state, symbol) ==
    \E i \in 1..Len(transitions) :
        transitions[i].state = state /\ transitions[i].input = symbol

C3_CheckContract ==
    result # None =>
        LET accepted == result[1]
            trace == result[2]
            n == Len(trace)
        IN  /\ n >= 1
            /\ n <= Len(input) + 1
            /\ trace[1] = start_state
            /\ \A k \in 1..(n - 1) :
                  \E i \in 1..Len(transitions) :
                      /\ transitions[i].state = trace[k]
                      /\ transitions[i].input = input[k]
                      /\ transitions[i].next_state = trace[k + 1]
            /\ n < Len(input) + 1 => (~accepted /\ ~HasRule(trace[n], input[n]))
            /\ n = Len(input) + 1 => (accepted <=> trace[n] \in accept_states)

C3_Witness ==
    /\ result # None
    /\ Len(input) = 3
    /\ Len(result[2]) = 3
    /\ result[2][3] \in accept_states
    /\ result[2][2] # result[2][3]

(* C4: after remove_inaccessible_states the transition collection is the   *)
(* sub-collection of the original transitions whose source and destination *)
(* are both reachable from the start state by zero or more transitions,    *)
(* and the visited set of the traversal is that set of reachable states.   *)
RECURSIVE ReachableFrom(_, _)
ReachableFrom(ts, S) ==
    LET T == S \cup {ts[i].next_state : i \in {j \in 1..Len(ts) : ts[j].state \in S}}
    IN  IF T = S THEN S ELSE ReachableFrom(ts, T)

Reachable(d) == ReachableFrom(d.transitions, {d.start_state})

C4_PrunedToReachable ==
    LastCall = "remove_inaccessible_states" =>
        /\ transitions = SelectSeq(before.transitions,
                                   LAMBDA t : t.state \in Reachable(before)
                                              /\ t.next_state \in Reachable(before))
        /\ bfs_loop(before.transitions, {}, <<before.start_state>>) = Reachable(before)

C4_Witness ==
    /\ calls = <<"remove_inaccessible_states">>
    /\ Len(before.transitions) = 2
    /\ Len(transitions) = 1
    /\ transitions[1].state # transitions[1].next_state
    /\ \E i \in 1..2 : /\ before.transitions[i].next_state \in Reachable(before)
                       /\ before.transitions[i].state \notin Reachable(before)

(* C5: the pruner is idempotent: a second remove_inaccessible_states       *)
(* directly after a first one leaves the transition collection unchanged.  *)
C5_PrunerIdempotent ==
    LastTwoCalls("remove_inaccessible_states") => transitions = before.transitions

C5_Witness ==
    /\ calls = <<"remove_inaccessible_states", "remove_inaccessible_states">>
    /\ Len(transitions) = 2
    /\ transitions[1].state = start_state
    /\ transitions[1].next_state # start_state
    /\ transitions[2].state = transitions[1].next_state

(* C6: canonical naming.  The map returned by minimize() sends every       *)
(* member of a final class with more than one member to the smallest       *)
(* identifier of that class, no member of a one-member class is a key, and *)
(* the rewritten transitions are the pruned transitions with the members   *)
(* of the larger classes replaced by that smallest identifier and every    *)
(* other state left as it was.                                             *)
CanonicalName(s) ==
    LET merged == {i \in 1..Len(equivalence_classes) :
                      s \in equivalence_classes[i] /\ Cardinality(equivalence_classes[i]) > 1}
    IN  IF merged = {} THEN s
        ELSE CHOOSE m \in equivalence_classes[Min(merged)] :
                 \A y \in equivalence_classes[Min(merged)] : m <= y

C6_CanonicalNaming ==
    LastCall = "minimize" =>
        /\ \A i \in 1..Len(equivalence_classes) :
              LET class == equivalence_classes[i]
              IN  /\ Cardinality(class) > 1 =>
                        \A s \in class :
                            /\ s \in DOMAIN renaming_operations
                            /\ renaming_operations[s] \in class
                            /\ \A y \in class : renaming_operations[s] <= y
                  /\ Cardinality(class) = 1 =>
                        \A s \in class : s \notin DOMAIN renaming_operations
        /\ {transitions[i] : i \in 1..Len(transitions)}
              = {[state      |-> CanonicalName(PrunedBefore[i].state),
                  input      |-> PrunedBefore[i].input,
                  next_state |-> CanonicalName(PrunedBefore[i].next_state)] :
                   i \in 1..Len(PrunedBefore)}

C6_Witness ==
    /\ calls = <<"minimize">>
    /\ Deterministic(before.transitions)
    /\ \E i, j \in 1..Len(equivalence_classes) :
          /\ Cardinality(equivalence_classes[i]) = 2
          /\ equivalence_classes[i] \subseteq get_all_states(PrunedBefore)
          /\ Cardinality(equivalence_classes[j]) = 1
          /\ equivalence_classes[j] \subseteq get_all_states(transitions)
    /\ transitions # before.transitions

(* C7: when the refinement loop exits, any two states of one class agree,  *)
(* for every symbol of the working alphabet, on the class that contains    *)
(* their successor; both lacking a rule is agreement, exactly one lacking  *)
(* a rule is disagreement.                                                 *)
Successor(state, symbol) ==
    transitions[Min({i \in 1..Len(transitions) :
                        transitions[i].state = state /\ transitions[i].input = symbol})].next_state

AgreeOn(state_1, state_2, symbol) ==
    IF HasRule(state_1, symbol) /\ HasRule(state_2, symbol)
    THEN \E i \in 1..Len(equivalence_classes) :
             /\ Successor(state_1, symbol) \in equivalence_classes[i]
             /\ Successor(state_2, symbol) \in equivalence_classes[i]
    ELSE ~HasRule(state_1, symbol) /\ ~HasRule(state_2, symbol)

C7_ExitIsFixedPoint ==
    pc = "rename" =>
        \A i \in 1..Len(equivalence_classes) :
            \A state_1, state_2 \in equivalence_classes[i] :
                \A symbol \in get_all_input_symbols(transitions) :
                    AgreeOn(state_1, state_2, symbol)

(* C8: during the traversal of the pruner no state is put on               *)
(* states_to_visit more than once.                                         *)
C8_ScheduledOnce ==
    \A s \in States : scheduled[s] <= 1

(* C9: minimize() terminates: a call that has begun returns.               *)
C9_MinimizeTerminates ==
    (pc # "idle") ~> (pc = "idle")

C9_Witness ==
    /\ pc = "idle"
    /\ calls = <<"minimize">>
    /\ Len(before.transitions) = 2
    /\ before.transitions[1].state = before.start_state
    /\ before.transitions[1].next_state # before.start_state
    /\ before.transitions[2].state = before.transitions[1].next_state
    /\ before.transitions[2].next_state = before.start_state
    /\ visited_states = {before.start_state, before.transitions[1].next_state}

(* C10: every key and every value of the map returned by minimize() is a   *)
(* state of the pruned transition relation.                                *)
C10_RenamesOnlyPrunedStates ==
    LastCall = "minimize" =>
        /\ DOMAIN renaming_operations \subseteq get_all_states(PrunedBefore)
        /\ \A s \in DOMAIN renaming_operations :
              renaming_operations[s] \in get_all_states(PrunedBefore)

(* C11: after minimize() the start state is the canonical name of the      *)
(* final class that contains the start state the call began with, and a    *)
(* start state that was the source of a transition before the call is the  *)
(* source of a transition after it.                                        *)
IsSource(ts, state) == \E i \in 1..Len(ts) : ts[i].state = state

C11_StartStateRenamed ==
    LastCall = "minimize" =>
        /\ start_state = CanonicalName(before.start_state)
        /\ IsSource(before.transitions, before.start_state) => IsSource(transitions, start_state)

====
